---- MODULE Spec2Model ----
(***************************************************************************)
(* A model of the ICU calculator of src/app.py: the session dictionary,    *)
(* the page that is on screen, and one action per form handler.            *)
(*                                                                         *)
(* Encoding.  Text is a TLA+ string.  Non-ASCII literals of the source are *)
(* transliterated: "Custom" is the custom preset, "male" / "female" are    *)
(* the two values of the sex radio, and the labels shown on screen are     *)
(* given in English.  A parsed number is an integer in a                   *)
(* fixed decimal scale named by the suffix of the operator that produces   *)
(* it (milli = 1/1000, centi = 1/100, tenth = 1/10); quotients are kept as *)
(* a pair <<numerator, denominator>> and compared by cross-multiplication, *)
(* so no precision is lost.  Python's None is the empty tuple where a      *)
(* number is expected (<<v>> is the number v) and the text None in the     *)
(* session dictionary.                                                     *)
(***************************************************************************)
EXTENDS Integers, Sequences, FiniteSets, TLC

VARIABLES session, screen

vars == <<session, screen>>

(***************************************************************************)
(* Bounds of the model (how many of the enumerated inputs are drawn).      *)
(***************************************************************************)
MaxTexts == 4
MaxPresets == 4
MaxValues == 3
MaxItems == 2

(***************************************************************************)
(* Values                                                                  *)
(***************************************************************************)
None == "<None>"
ListValue == "<list>"
True == "True"

Abs(x) == IF x < 0 THEN -x ELSE x

Prefix(seq, n) == {seq[i] : i \in 1..(IF n < Len(seq) THEN n ELSE Len(seq))}

(* A quotient n/d, d # 0, with the sign carried by the numerator. *)
Rat(n, d) == IF d < 0 THEN <<-n, -d>> ELSE <<n, d>>
RatLess(a, b) == a[1] * b[2] < b[1] * a[2]

(* round(): to the nearest integer, ties to the even one. *)
RoundRat(a) ==
    LET q == a[1] \div a[2]
        r == a[1] - q * a[2]
    IN  IF 2 * r < a[2] THEN q
        ELSE IF 2 * r > a[2] THEN q + 1
        ELSE IF q % 2 = 0 THEN q ELSE q + 1

(* round(x, ndigits) of a number in milli: the result in units of `unit` milli. *)
round(x_milli, unit) == RoundRat(Rat(x_milli, unit))

(***************************************************************************)
(* Clinical constants                                                      *)
(***************************************************************************)
GAMMA_THRESHOLDS ==
    [p \in {"Norepinephrine (NAD)", "Dobutamine (DOB)", "Dopamine (DOA)",
            "Nicardipine", "Midazolam", "Propofol", "Dexmedetomidine",
            "Nitroglycerin", "Carperitide"} |->
        CASE p = "Norepinephrine (NAD)" -> [type |-> "ug/kg/min", threshold_tenth |-> 3]
          [] p = "Dobutamine (DOB)"     -> [type |-> "ug/kg/min", threshold_tenth |-> 100]
          [] p = "Dopamine (DOA)"       -> [type |-> "ug/kg/min", threshold_tenth |-> 100]
          [] p = "Nicardipine"          -> [type |-> "ug/kg/min", threshold_tenth |-> 50]
          [] p = "Midazolam"            -> [type |-> "mg/kg/h",   threshold_tenth |-> 2]
          [] p = "Propofol"             -> [type |-> "mg/kg/h",   threshold_tenth |-> 30]
          [] p = "Dexmedetomidine"      -> [type |-> "ug/kg/h",   threshold_tenth |-> 7]
          [] p = "Nitroglycerin"        -> [type |-> "ug/kg/min", threshold_tenth |-> 50]
          [] p = "Carperitide"          -> [type |-> "ug/kg/min", threshold_tenth |-> 1]]

(* The preset names in the order of the dictionary; mg and ml as their str(). *)
PresetOrder ==
    <<"Custom", "Norepinephrine (NAD)", "Midazolam", "Dexmedetomidine",
      "Dobutamine (DOB)", "Dopamine (DOA)", "Nicardipine", "Propofol",
      "Nitroglycerin", "Carperitide">>

DRUG_PRESETS ==
    [p \in Prefix(PresetOrder, Len(PresetOrder)) |->
        CASE p = "Custom"               -> [mg |-> "0.0",    ml |-> "0.0"]
          [] p = "Norepinephrine (NAD)" -> [mg |-> "5.0",    ml |-> "50.0"]
          [] p = "Dobutamine (DOB)"     -> [mg |-> "150.0",  ml |-> "50.0"]
          [] p = "Dopamine (DOA)"       -> [mg |-> "150.0",  ml |-> "50.0"]
          [] p = "Nicardipine"          -> [mg |-> "50.0",   ml |-> "50.0"]
          [] p = "Midazolam"            -> [mg |-> "50.0",   ml |-> "50.0"]
          [] p = "Propofol"             -> [mg |-> "1000.0", ml |-> "100.0"]
          [] p = "Dexmedetomidine"      -> [mg |-> "0.2",    ml |-> "50.0"]
          [] p = "Nitroglycerin"        -> [mg |-> "50.0",   ml |-> "100.0"]
          [] p = "Carperitide"          -> [mg |-> "3.0",    ml |-> "50.0"]]

(***************************************************************************)
(* Session initialisation and utilities                                    *)
(***************************************************************************)
SessionInit ==
    [gamma_preset |-> "Custom", gamma_mg_str |-> "", gamma_ml_str |-> "",
     gamma_flow_str |-> "", gamma_wt_str |-> "",
     ccr_age_str |-> "", ccr_weight_str |-> "", ccr_scr_str |-> "",
     ccr_sex |-> "male",
     ab_ph_str |-> "", ab_pco2_str |-> "", ab_hco3_str |-> "",
     ab_na_str |-> "", ab_cl_str |-> "", ab_alb_str |-> "",
     draft |-> None, initialized |-> True]

(* DRUG_PRESETS.get(preset_key, {"mg": 0.0, "ml": 0.0}) and the two writes. *)
preset_apply_to_session(s, preset_key) ==
    LET data == IF preset_key \in DOMAIN DRUG_PRESETS
                THEN DRUG_PRESETS[preset_key]
                ELSE [mg |-> "0.0", ml |-> "0.0"]
    IN  [s EXCEPT !.gamma_mg_str = data.mg, !.gamma_ml_str = data.ml]

(* str.strip(): the texts of the model that carry surrounding blanks. *)
strip(s) ==
    CASE s = " 3 " -> "3"
      [] s = " "   -> ""
      [] OTHER     -> s

(* str.replace(",", ""). *)
RemoveCommas(s) ==
    CASE s = "1,000" -> "1000"
      [] OTHER       -> s

(* float(): the decimal literals of the model, in milli. *)
FloatTable ==
    << <<"0", 0>>, <<"0.0", 0>>, <<"0.004", 4>>, <<"0.04", 40>>, <<"0.2", 200>>,
       <<"0.9", 900>>, <<"1.0", 1000>>, <<"1", 1000>>, <<"3", 3000>>,
       <<"3.0", 3000>>, <<"5", 5000>>, <<"5.0", 5000>>, <<"-5", -5000>>,
       <<"36", 36000>>, <<"72", 72000>>, <<"50", 50000>>, <<"50.0", 50000>>, <<"60", 60000>>,
       <<"64.5", 64500>>, <<"80", 80000>>, <<"100.0", 100000>>,
       <<"150.0", 150000>>, <<"1000", 1000000>>, <<"1000.0", 1000000>> >>

IsFloatLiteral(s) == \E i \in 1..Len(FloatTable) : FloatTable[i][1] = s

float(s) == FloatTable[CHOOSE i \in 1..Len(FloatTable) : FloatTable[i][1] = s][2]

(* <<>> for None, <<v>> for the float v (milli).  The default is None at    *)
(* every call of the source.                                               *)
safe_parse_number(s) ==
    IF s = None THEN <<>>
    ELSE LET t == strip(s)
         IN  IF t = "" THEN <<>>
             ELSE IF IsFloatLiteral(RemoveCommas(t))
                  THEN <<float(RemoveCommas(t))>>
                  ELSE <<>>

(***************************************************************************)
(* Gamma (infusion-rate) module                                            *)
(***************************************************************************)
RECURSIVE Gcd(_, _)
Gcd(a, b) == IF b = 0 THEN a ELSE Gcd(b, a % b)

(* A quotient in lowest terms, the form in which results are kept on screen. *)
Reduced(a) ==
    LET g == Gcd(Abs(a[1]), a[2])
    IN  <<a[1] \div g, a[2] \div g>>

NoValue == <<0, 1>>

GammaBlank ==
    [module |-> "gamma", submitted |-> FALSE, outcome |-> "none", preset |-> "",
     mg_str |-> "", ml_str |-> "", flow_str |-> "", wt_str |-> "",
     card |-> "", mg_h |-> NoValue, secondary |-> "", value |-> NoValue,
     warning |-> FALSE, detail_gamma |-> FALSE]

(* Lines 247-314: what a submission of the gamma form puts on screen.       *)
(* mg, ml, fl, wt are in tenths after round(x, 1).                          *)
GammaResult(preset, drug_mg, sol_ml, flow, wt_opt) ==
    LET mg == round(drug_mg, 100)
        ml == round(sol_ml, 100)
        fl == round(flow, 100)
        has_wt == wt_opt # <<>> /\ wt_opt[1] # 0 /\ wt_opt[1] > 0
        wt == IF has_wt THEN round(wt_opt[1], 100) ELSE 0
    IN  IF ml = 0 \/ (has_wt /\ wt = 0)
        THEN [outcome |-> "exception", card |-> "", mg_h |-> NoValue,
              secondary |-> "", value |-> NoValue, warning |-> FALSE,
              detail_gamma |-> FALSE]
        ELSE
        LET mg_h == Rat(fl * mg, 10 * ml)
            has_gamma == has_wt
            gamma == IF has_gamma THEN Rat(fl * mg * 50, 3 * ml * wt) ELSE NoValue
            gamma60 == IF has_gamma THEN Rat(fl * mg * 1000, ml * wt) ELSE NoValue
            mgkg_h == IF has_gamma THEN Rat(fl * mg, ml * wt) ELSE NoValue
            has_cfg == preset \in DOMAIN GAMMA_THRESHOLDS
            type == IF has_cfg THEN GAMMA_THRESHOLDS[preset].type ELSE ""
            thr == IF has_cfg
                   THEN <<GAMMA_THRESHOLDS[preset].threshold_tenth, 10>>
                   ELSE NoValue
            shown == CASE type = "ug/kg/h"   -> gamma60
                       [] type = "ug/kg/min" -> gamma
                       [] type = "mg/kg/h"   -> mgkg_h
                       [] OTHER              -> NoValue
            over == RatLess(thr, shown)
        IN  IF has_gamma /\ has_cfg
            THEN [outcome |-> "result",
                  card |-> IF over THEN "result-card-yellow" ELSE "result-card-green",
                  mg_h |-> Reduced(mg_h), secondary |-> type,
                  value |-> Reduced(shown), warning |-> over,
                  detail_gamma |-> TRUE]
            ELSE [outcome |-> "result", card |-> "result-card-green",
                  mg_h |-> Reduced(mg_h), secondary |-> "gamma not shown: no weight",
                  value |-> NoValue, warning |-> FALSE,
                  detail_gamma |-> has_gamma]

(* Lines 229-314: the form, the write-back of its fields, the submission.   *)
GammaForm(s, preset, mg_str, ml_str, flow_str, use_wt, wt_in, submitted) ==
    LET wt_str == IF use_wt THEN wt_in ELSE ""
        s2 == [s EXCEPT !.gamma_mg_str = mg_str, !.gamma_ml_str = ml_str,
                        !.gamma_flow_str = flow_str, !.gamma_wt_str = wt_str]
        drug_mg == safe_parse_number(mg_str)
        sol_ml == safe_parse_number(ml_str)
        flow == safe_parse_number(flow_str)
        wt == safe_parse_number(wt_str)
        shown == [GammaBlank EXCEPT !.submitted = submitted, !.preset = preset,
                                    !.mg_str = mg_str, !.ml_str = ml_str,
                                    !.flow_str = flow_str, !.wt_str = wt_str]
        r == GammaResult(preset, drug_mg[1], sol_ml[1], flow[1], wt)
    IN  [session |-> s2,
         screen |->
            IF ~submitted THEN shown
            ELSE IF drug_mg = <<>> \/ sol_ml = <<>> \/ flow = <<>>
            THEN [shown EXCEPT !.outcome = "error"]
            ELSE [shown EXCEPT !.outcome = r.outcome, !.card = r.card,
                               !.mg_h = r.mg_h, !.secondary = r.secondary,
                               !.value = r.value, !.warning = r.warning,
                               !.detail_gamma = r.detail_gamma]]

(* Lines 223-227: the preset selector, outside the form. *)
GammaPreset(s, preset) ==
    IF preset # s.gamma_preset
    THEN preset_apply_to_session([s EXCEPT !.gamma_preset = preset], preset)
    ELSE s

render_gamma_module(preset, mg_str, ml_str, flow_str, use_wt, wt_in, submitted) ==
    GammaForm(GammaPreset(session, preset), preset, mg_str, ml_str, flow_str,
              use_wt, wt_in, submitted)

PresetChoices == Prefix(PresetOrder, MaxPresets)
MgTexts == Prefix(<<"5", "0", "", "-5", "abc", "5.0", "0.2">>, MaxTexts)
MlTexts == Prefix(<<"50", "0", "0.04", "", "-5", "50.0", "abc">>, MaxTexts)
FlowTexts == Prefix(<<" 3 ", "0", "", "-5", "5", "3.0", "abc">>, MaxTexts)
WtTexts == Prefix(<<"50", "0.04", "", "0", "abc", "60", "-5">>, MaxTexts)

(* A rerun caused by choosing another preset: the form is not submitted and *)
(* its fields return the values the session now holds.                      *)
GammaSelectPreset ==
    /\ session.gamma_preset \in DOMAIN DRUG_PRESETS
    /\ \E preset \in PresetChoices :
        /\ preset # session.gamma_preset
        /\ LET s1 == GammaPreset(session, preset)
               r == render_gamma_module(preset, s1.gamma_mg_str, s1.gamma_ml_str,
                        s1.gamma_flow_str, s1.gamma_wt_str # "", s1.gamma_wt_str,
                        FALSE)
           IN  session' = r.session /\ screen' = r.screen

(* A rerun caused by the form's submit button. *)
GammaSubmit ==
    /\ session.gamma_preset \in DOMAIN DRUG_PRESETS
    /\ \E mg_str \in MgTexts, ml_str \in MlTexts, flow_str \in FlowTexts,
          use_wt \in BOOLEAN, wt_in \in WtTexts :
        LET r == render_gamma_module(session.gamma_preset, mg_str, ml_str,
                                     flow_str, use_wt, wt_in, TRUE)
        IN  session' = r.session /\ screen' = r.screen

(* st.text_input(value=v) on a first render: the text of v, None for None. *)
text_input(v) ==
    IF v = None THEN None ELSE IF v = ListValue THEN "['<list>']" ELSE v

(* The gamma page is opened from the sidebar.  Lines 223-224 look up the    *)
(* index of gamma_preset in the preset list: ValueError when it is not a    *)
(* preset name, and nothing else of the page runs.  Otherwise the selector  *)
(* returns gamma_preset, the form returns the session's values and lines    *)
(* 241-244 write back those that are not None.                              *)
GammaOpen ==
    IF session.gamma_preset \notin DOMAIN DRUG_PRESETS
    THEN /\ screen' = [GammaBlank EXCEPT !.outcome = "exception"]
         /\ UNCHANGED session
    ELSE LET mg_str == text_input(session.gamma_mg_str)
             ml_str == text_input(session.gamma_ml_str)
             flow_str == text_input(session.gamma_flow_str)
             wt_str == IF session.gamma_wt_str # ""
                       THEN text_input(session.gamma_wt_str) ELSE ""
             kept(k, v) == IF v # None THEN v ELSE session[k]
         IN  /\ session' = [session EXCEPT
                              !.gamma_mg_str = kept("gamma_mg_str", mg_str),
                              !.gamma_ml_str = kept("gamma_ml_str", ml_str),
                              !.gamma_flow_str = kept("gamma_flow_str", flow_str),
                              !.gamma_wt_str = kept("gamma_wt_str", wt_str)]
             /\ screen' = [GammaBlank EXCEPT !.preset = session.gamma_preset,
                              !.mg_str = mg_str, !.ml_str = ml_str,
                              !.flow_str = flow_str, !.wt_str = wt_str]

(***************************************************************************)
(* CCr (Cockcroft-Gault) module                                            *)
(***************************************************************************)
CCrBlank ==
    [module |-> "ccr", submitted |-> FALSE, outcome |-> "none",
     age_str |-> "", wt_str |-> "", scr_str |-> "", sex |-> "male",
     card |-> "", val |-> NoValue, cat |-> "", female_note |-> FALSE]

(* <<>> for None, else <<val>> with val a quotient in mL/min.               *)
(* age in years, wt in tenths of a kg, scr in hundredths of a mg/dL.        *)
calc_ccr(age, wt, scr, sex) ==
    IF scr <= 0 THEN <<>>
    ELSE LET ccr == Rat((140 - age) * wt * 10, 72 * scr)
         IN  IF sex = "female"
             THEN <<Rat(ccr[1] * 17, ccr[2] * 20)>>
             ELSE <<ccr>>

(* Lines 351-358: the severity band of a value. *)
CCrCategory_Inclusive(val) ==
    IF ~RatLess(<<30, 1>>, val)
    THEN [cat |-> "severe (<30)", col |-> "result-card-red"]
    ELSE IF ~RatLess(<<60, 1>>, val)
    THEN [cat |-> "moderate (30-60)", col |-> "result-card-yellow"]
    ELSE [cat |-> "normal (>60)", col |-> "result-card-green"]

CCrCategory(val) ==
    IF RatLess(val, <<30, 1>>)
    THEN [cat |-> "severe (<30)", col |-> "result-card-red"]
    ELSE IF RatLess(val, <<60, 1>>)
    THEN [cat |-> "moderate (30-60)", col |-> "result-card-yellow"]
    ELSE [cat |-> "normal (>60)", col |-> "result-card-green"]

render_ccr_module(age_str, wt_str, scr_str, sex, submitted) ==
    LET s2 == [session EXCEPT !.ccr_age_str = age_str, !.ccr_weight_str = wt_str,
                              !.ccr_scr_str = scr_str]
        age_p == safe_parse_number(age_str)
        wt_p == safe_parse_number(wt_str)
        scr_p == safe_parse_number(scr_str)
        shown == [CCrBlank EXCEPT !.submitted = submitted, !.age_str = age_str,
                                  !.wt_str = wt_str, !.scr_str = scr_str,
                                  !.sex = sex]
        age == round(age_p[1], 1000)
        wt == round(wt_p[1], 100)
        scr == round(scr_p[1], 10)
        val == calc_ccr(age, wt, scr, sex)
    IN  [session |-> s2,
         screen |->
            IF ~submitted THEN shown
            ELSE IF age_p = <<>> \/ wt_p = <<>> \/ scr_p = <<>>
            THEN [shown EXCEPT !.outcome = "error"]
            ELSE IF val = <<>>
            THEN [shown EXCEPT !.outcome = "error"]
            ELSE [shown EXCEPT !.outcome = "result",
                               !.card = CCrCategory(val[1]).col,
                               !.val = Reduced(val[1]),
                               !.cat = CCrCategory(val[1]).cat,
                               !.female_note = (sex = "female")]]

AgeTexts == Prefix(<<"80", "64.5", "", "60", "abc", "-5">>, MaxTexts)
WeightTexts == Prefix(<<"36", "72", "0.04", "60", "1,000", "", "-5">>, MaxTexts)
ScrTexts == Prefix(<<"1.0", "0.004", "0", "0.9", "-5", "", "abc">>, MaxTexts)

(* The page is opened: the fields show the session's values, the radio its  *)
(* first option, and nothing is submitted.                                  *)
CCrOpen ==
    LET r == render_ccr_module(session.ccr_age_str, session.ccr_weight_str,
                               session.ccr_scr_str, "male", FALSE)
    IN  session' = r.session /\ screen' = r.screen

CCrSubmit ==
    \E age_str \in AgeTexts, wt_str \in WeightTexts, scr_str \in ScrTexts,
       sex \in {"male", "female"} :
        LET r == render_ccr_module(age_str, wt_str, scr_str, sex, TRUE)
        IN  session' = r.session /\ screen' = r.screen

(***************************************************************************)
(* Acid-base module                                                        *)
(*   ph in hundredths; pco2, hco3, na, cl, alb in tenths; ag_corr in       *)
(*   twentieths (2.5 x a tenth).                                           *)
(***************************************************************************)
(* Lines 398-409: the details added by the gap logic. *)
DeltaRatioDetail(ag_corr, hco3) ==
    LET d_ag == ag_corr - 12 * 20
        d_hco3 == 24 * 10 - hco3
        ratio == Rat(d_ag, 2 * d_hco3)
    IN  IF ag_corr > 12 * 20 /\ d_hco3 # 0
        THEN IF RatLess(ratio, <<2, 5>>) THEN <<"hyperchloremic acidosis? (Ratio<0.4)">>
             ELSE IF RatLess(<<2, 1>>, ratio) THEN <<"metabolic alkalosis? (Ratio>2.0)">>
             ELSE <<>>
        ELSE <<>>

(* Line 412. *)
WinterApplies(ph, hco3) == hco3 < 24 * 10 /\ ph < 740

(* Line 413: exp_pco2 = 1.5 * hco3 + 8, in hundredths. *)
WinterExpected(hco3) == 15 * hco3 + 800

(* Lines 411-416: Winter's formula. *)
WinterDetail_OpenBand(ph, pco2, hco3) ==
    LET exp_pco2 == WinterExpected(hco3)
    IN  IF WinterApplies(ph, hco3)
        THEN <<"expected PaCO2 +-2">> \o
             (IF pco2 * 10 >= exp_pco2 + 200 THEN <<"Resp Acidosis">>
              ELSE IF pco2 * 10 <= exp_pco2 - 200 THEN <<"Resp Alkalosis">>
              ELSE <<>>)
        ELSE <<>>

WinterDetail(ph, pco2, hco3) ==
    LET exp_pco2 == WinterExpected(hco3)
    IN  IF WinterApplies(ph, hco3)
        THEN <<"expected PaCO2 +-2">> \o
             (IF pco2 * 10 > exp_pco2 + 200 THEN <<"Resp Acidosis">>
              ELSE IF pco2 * 10 < exp_pco2 - 200 THEN <<"Resp Alkalosis">>
              ELSE <<>>)
        ELSE <<>>

render_ab_module(ph, pco2, hco3, na, cl, alb) ==
    LET ag == na - (cl + hco3)
        ag_corr == 2 * ag + 5 * (40 - alb)
        primary == IF ph < 735 THEN "acidemia"
                   ELSE IF ph > 745 THEN "alkalemia"
                   ELSE "pH normal"
        is_high_ag == ag_corr > 12 * 20
        detail == DeltaRatioDetail(ag_corr, hco3) \o WinterDetail(ph, pco2, hco3)
    IN  [module |-> "ab", submitted |-> TRUE, outcome |-> "result",
         ph |-> ph, pco2 |-> pco2, hco3 |-> hco3, na |-> na, cl |-> cl, alb |-> alb,
         state |-> primary, high_ag |-> is_high_ag, ag_corr |-> ag_corr,
         card |-> IF primary = "acidemia" \/ is_high_ag
                  THEN "result-card-yellow" ELSE "result-card-green",
         detail |-> detail,
         exp_pco2 |-> IF WinterApplies(ph, hco3) THEN WinterExpected(hco3) ELSE 0]

PhValues == Prefix(<<728, 740, 750, 735>>, MaxValues)
Pco2Values == Prefix(<<250, 370, 371, 330, 329>>, MaxValues)
Hco3Values == Prefix(<<180, 300, 240, 100>>, MaxValues)
NaValues == Prefix(<<1400, 1500>>, MaxValues)
ClValues == Prefix(<<1000, 1150>>, MaxValues)
AlbValues == Prefix(<<40, 20>>, MaxValues)

ABSubmit ==
    \E ph \in PhValues, pco2 \in Pco2Values, hco3 \in Hco3Values,
       na \in NaValues, cl \in ClValues, alb \in AlbValues :
        /\ screen' = render_ab_module(ph, pco2, hco3, na, cl, alb)
        /\ UNCHANGED session

(***************************************************************************)
(* Renal differential module (all inputs in tenths)                        *)
(***************************************************************************)
FENA_PRERENAL == 1
FENA_ATN == 2
FEUREA_PRERENAL == 35

(* <<>> for None, else <<q>> with q the percentage as a quotient; a         *)
(* denominator of 0 stands for the ZeroDivisionError the division raises.   *)
calc_fena_GuardsPlasmaOnly(p_na, u_na, p_cr, u_cr) ==
    IF p_na = 0 THEN <<>>
    ELSE <<Rat(u_na * p_cr * 100, p_na * u_cr)>>

calc_fena(p_na, u_na, p_cr, u_cr) ==
    IF p_na * u_cr = 0 THEN <<>>
    ELSE <<Rat(u_na * p_cr * 100, p_na * u_cr)>>

calc_feurea(p_urea, u_urea, p_cr, u_cr) ==
    IF p_urea * u_cr = 0 THEN <<>>
    ELSE <<Rat(u_urea * p_cr * 100, p_urea * u_cr)>>

Raises(x) == x # <<>> /\ x[1][2] = 0

(* Lines 565-567. *)
FenaState(fena) ==
    IF RatLess(fena, <<FENA_PRERENAL, 1>>) THEN "prerenal (dehydration/heart failure)"
    ELSE IF RatLess(<<FENA_ATN, 1>>, fena) THEN "renal (ATN confirmed?)"
    ELSE "renal (ATN etc.)"

(* Lines 575-576. *)
FeureaState(feurea) ==
    IF RatLess(feurea, <<FEUREA_PRERENAL, 1>>) THEN "prerenal (under diuretics)"
    ELSE "renal"

render_renal_diff(u_na, p_na, u_cr, p_cr, do_urea, u_urea, p_urea) ==
    LET fena == calc_fena(p_na, u_na, p_cr, u_cr)
        fena_shown == fena # <<>> /\ ~Raises(fena)
        feurea == IF do_urea /\ ~Raises(fena)
                  THEN calc_feurea(p_urea, u_urea, p_cr, u_cr) ELSE <<>>
        feurea_shown == feurea # <<>> /\ ~Raises(feurea)
    IN  [module |-> "renal", submitted |-> TRUE,
         outcome |-> IF Raises(fena) \/ Raises(feurea) THEN "error"
                     ELSE IF fena_shown \/ feurea_shown THEN "result"
                     ELSE "none",
         u_na |-> u_na, p_na |-> p_na, u_cr |-> u_cr, p_cr |-> p_cr,
         do_urea |-> do_urea, u_urea |-> u_urea, p_urea |-> p_urea,
         fena_shown |-> fena_shown,
         fena |-> IF fena_shown THEN Reduced(fena[1]) ELSE NoValue,
         fena_state |-> IF fena_shown THEN FenaState(fena[1]) ELSE "",
         feurea_shown |-> feurea_shown,
         feurea |-> IF feurea_shown THEN Reduced(feurea[1]) ELSE NoValue,
         feurea_state |-> IF feurea_shown THEN FeureaState(feurea[1]) ELSE ""]

UNaValues == Prefix(<<200, 0, 400>>, MaxValues)
PNaValues == Prefix(<<1400, 0>>, MaxValues)
UCrValues == Prefix(<<1000, 0>>, MaxValues)
PCrValues == Prefix(<<10, 100, 200, 70, 140>>, MaxValues)
UUreaValues == Prefix(<<3000, 0>>, MaxValues)
PUreaValues == Prefix(<<200, 0>>, MaxValues)

(* Submitted without the urea option: the two urea inputs stay 0.0. *)
RenalSubmit ==
    \E u_na \in UNaValues, p_na \in PNaValues, u_cr \in UCrValues, p_cr \in PCrValues :
        /\ screen' = render_renal_diff(u_na, p_na, u_cr, p_cr, FALSE, 0, 0)
        /\ UNCHANGED session

RenalSubmitWithUrea ==
    \E u_na \in UNaValues, p_na \in PNaValues, u_cr \in UCrValues, p_cr \in PCrValues,
       u_urea \in UUreaValues, p_urea \in PUreaValues :
        /\ screen' = render_renal_diff(u_na, p_na, u_cr, p_cr, TRUE, u_urea, p_urea)
        /\ UNCHANGED session

(***************************************************************************)
(* Heart failure (Forrester) module: co and bsa in tenths, pcwp in mmHg    *)
(***************************************************************************)
FORRESTER_CI == 22
FORRESTER_PCWP == 18

(* Line 504. *)
IsWet_Strict(pcwp) == pcwp > FORRESTER_PCWP

IsWet(pcwp) == pcwp >= FORRESTER_PCWP

(* Line 505: ci = co / bsa < 2.2, for bsa > 0. *)
IsCold(co, bsa) == RatLess(Rat(co, bsa), <<FORRESTER_CI, 10>>)

(* Lines 507-522. *)
ForresterSubset(is_wet, is_cold) ==
    IF is_wet /\ ~is_cold
    THEN [subset |-> "II (Warm/Wet)", rx |-> "vasodilator + diuretic",
          col |-> "result-card-yellow"]
    ELSE IF ~is_wet /\ is_cold
    THEN [subset |-> "III (Cold/Dry)", rx |-> "fluid challenge (volume check) + inotrope",
          col |-> "result-card-yellow"]
    ELSE IF is_wet /\ is_cold
    THEN [subset |-> "IV (Cold/Wet)", rx |-> "inotrope + vasopressor + mechanical support",
          col |-> "result-card-red"]
    ELSE [subset |-> "I (Warm/Dry)", rx |-> "observe", col |-> "result-card-green"]

render_hf_module(co, bsa, pcwp, scenario) ==
    LET shown == [module |-> "hf", submitted |-> TRUE, outcome |-> "error",
                  co |-> co, bsa |-> bsa, pcwp |-> pcwp, scenario |-> scenario,
                  card |-> "", subset |-> "", rx |-> "", ci |-> NoValue,
                  cold |-> FALSE, wet |-> FALSE]
        r == ForresterSubset(IsWet(pcwp), IsCold(co, bsa))
    IN  IF bsa <= 0 THEN shown
        ELSE [shown EXCEPT !.outcome = "result", !.card = r.col,
                           !.subset = r.subset, !.rx = r.rx,
                           !.ci = Reduced(Rat(co, bsa)),
                           !.cold = IsCold(co, bsa), !.wet = IsWet(pcwp)]

CoValues == Prefix(<<40, 44, 20, 0, 30>>, MaxTexts)
BsaValues == Prefix(<<16, 20, 0, 10>>, MaxValues)
PcwpValues == Prefix(<<20, 18, 17, 0, 50>>, MaxTexts)
Scenarios == Prefix(<<"CS1", "CS2", "CS3", "CS4", "CS5">>, MaxValues)

HfSubmit ==
    \E co \in CoValues, bsa \in BsaValues, pcwp \in PcwpValues, scenario \in Scenarios :
        /\ screen' = render_hf_module(co, bsa, pcwp, scenario)
        /\ UNCHANGED session

(***************************************************************************)
(* Draft export / import                                                   *)
(***************************************************************************)
export_keys ==
    <<"gamma_preset", "gamma_mg_str", "gamma_ml_str", "gamma_flow_str", "gamma_wt_str",
      "ccr_age_str", "ccr_weight_str", "ccr_scr_str", "ccr_sex",
      "ab_ph_str", "ab_pco2_str", "ab_hco3_str", "ab_na_str", "ab_cl_str", "ab_alb_str">>

ExportKeySet == {export_keys[i] : i \in 1..Len(export_keys)}

(* Line 654: {k: st.session_state.get(k) for k in export_keys}. *)
ExportData(s) == [k \in ExportKeySet |-> IF k \in DOMAIN s THEN s[k] ELSE None]

(* Lines 671-675: one (k, v) of the loaded object.  `raised` is the         *)
(* TypeError of DRUG_PRESETS.get on an unhashable key (a list or object).   *)
ImportItem_NoAllowList(s, k, v) ==
    LET s1 == (k :> v) @@ s
    IN  IF k = "gamma_preset"
        THEN IF v = ListValue
             THEN [session |-> s1, raised |-> TRUE]
             ELSE [session |-> preset_apply_to_session(s1, v), raised |-> FALSE]
        ELSE [session |-> s1, raised |-> FALSE]

ImportItem(s, k, v) ==
    IF k \in ExportKeySet
    THEN LET s1 == (k :> v) @@ s
         IN  IF k = "gamma_preset"
             THEN IF v = ListValue
                  THEN [session |-> s1, raised |-> TRUE]
                  ELSE [session |-> preset_apply_to_session(s1, v), raised |-> FALSE]
             ELSE [session |-> s1, raised |-> FALSE]
    ELSE [session |-> s, raised |-> FALSE]

(* Lines 670-675: the loop over loaded_data.items(), in the file's order,   *)
(* left at the first item that raises.                                      *)
RECURSIVE ImportItems(_, _)
ImportItems(s, items) ==
    IF items = <<>> THEN [session |-> s, raised |-> FALSE]
    ELSE LET r == ImportItem(s, Head(items)[1], Head(items)[2])
         IN  IF r.raised THEN r ELSE ImportItems(r.session, Tail(items))

(* Lines 641-679.  uploaded.kind is "none" (no file), "malformed"           *)
(* (json.load raises), "not an object" (a top-level list or scalar: .items  *)
(* raises) or "object", with uploaded.items its (key, value) pairs.         *)
render_export_import(uploaded) ==
    LET r == CASE uploaded.kind = "object" -> ImportItems(session, uploaded.items)
               [] uploaded.kind = "none" -> [session |-> session, raised |-> FALSE]
               [] OTHER -> [session |-> session, raised |-> TRUE]
    IN  [session |-> r.session,
         screen |-> [module |-> "draft", submitted |-> FALSE,
                     outcome |-> IF uploaded.kind = "none" THEN "none"
                                 ELSE IF r.raised THEN "error" ELSE "success",
                     export |-> ExportData(session),
                     file |-> uploaded.kind,
                     file_keys |-> {uploaded.items[i][1] : i \in 1..Len(uploaded.items)}]]

ImportKeys == {"gamma_preset", "gamma_mg_str", "draft", "extra"}
ImportValues == {"Midazolam", ListValue, None, "7"}

(* The objects a file can hold: up to MaxItems pairs with distinct keys. *)
RECURSIVE ItemSeqs(_)
ItemSeqs(n) ==
    IF n = 0 THEN {<<>>}
    ELSE LET shorter == ItemSeqs(n - 1)
         IN  shorter \cup
             {Append(q, <<k, v>>) :
                 q \in {x \in shorter : Len(x) = n - 1},
                 k \in ImportKeys, v \in ImportValues}

DistinctKeys(items) ==
    \A i, j \in 1..Len(items) : items[i][1] = items[j][1] => i = j

Uploads ==
    {[kind |-> "malformed", items |-> <<>>], [kind |-> "not an object", items |-> <<>>]}
    \cup {[kind |-> "object", items |-> q] : q \in {x \in ItemSeqs(MaxItems) : DistinctKeys(x)}}

(* The page is opened with no file in the uploader. *)
DraftOpen ==
    LET r == render_export_import([kind |-> "none", items |-> <<>>])
    IN  session' = r.session /\ screen' = r.screen

DraftImport ==
    \E uploaded \in Uploads :
        LET r == render_export_import(uploaded)
        IN  session' = r.session /\ screen' = r.screen

(* Line 655, json.dumps of one value of the snapshot: a str is written as a *)
(* JSON string, None as null, a list as an array.                           *)
json_dumps(v) ==
    CASE v = None      -> <<"null">>
      [] v = ListValue -> <<"array">>
      [] OTHER         -> <<"string", v>>

(* Line 668, json.load of one value. *)
json_load(text) ==
    CASE text[1] = "null"  -> None
      [] text[1] = "array" -> ListValue
      [] OTHER             -> text[2]

(* Lines 654-655 and 668: the downloaded file read back; a dict keeps the   *)
(* order of export_keys through json.dumps and json.load.                   *)
ExportedFile(data) ==
    [kind |-> "object",
     items |-> [i \in 1..Len(export_keys) |->
                   <<export_keys[i], json_load(json_dumps(data[export_keys[i]]))>>]]

(* The file offered by the download button of the page on screen is         *)
(* uploaded: it was made from the session as it was when that page was      *)
(* rendered, before any import of the same run.                             *)
DraftReimport ==
    /\ screen.module = "draft"
    /\ LET r == render_export_import(ExportedFile(screen.export))
       IN  session' = r.session /\ screen' = r.screen

(***************************************************************************)
(* Specifications                                                          *)
(***************************************************************************)
Blank == [module |-> "menu", submitted |-> FALSE, outcome |-> "none"]

Init == session = SessionInit /\ screen = Blank

NextGamma == GammaSelectPreset \/ GammaSubmit

SpecGamma == Init /\ [][NextGamma]_vars

NextCCr == CCrOpen \/ CCrSubmit

SpecCCr == Init /\ [][NextCCr]_vars

NextAB == ABSubmit

SpecAB == Init /\ [][NextAB]_vars

NextRenal == RenalSubmit \/ RenalSubmitWithUrea

SpecRenal == Init /\ [][NextRenal]_vars

NextHf == HfSubmit

SpecHf == Init /\ [][NextHf]_vars

NextDraft == DraftOpen \/ DraftImport

SpecDraft == Init /\ [][NextDraft]_vars

NextForms == CCrOpen \/ CCrSubmit \/ ABSubmit \/ DraftOpen

SpecForms == Init /\ [][NextForms]_vars

(* The gamma page and the draft page of one session: the two places that    *)
(* write gamma_preset.                                                      *)
NextSession == GammaOpen \/ GammaSelectPreset \/ DraftOpen \/ DraftImport \/ DraftReimport

SpecSession == Init /\ [][NextSession]_vars

(***************************************************************************)
(* Claims about the gamma module (checked under SpecGamma)                 *)
(***************************************************************************)
GammaSubmitted == screen.module = "gamma" /\ screen.submitted

GammaParsed ==
    [mg |-> safe_parse_number(screen.mg_str), ml |-> safe_parse_number(screen.ml_str),
     flow |-> safe_parse_number(screen.flow_str), wt |-> safe_parse_number(screen.wt_str)]

GammaAllPresent ==
    GammaParsed.mg # <<>> /\ GammaParsed.ml # <<>> /\ GammaParsed.flow # <<>>

(* C1: a gamma submission whose drug mass, solvent volume or flow rate      *)
(* parses to a number that is zero or negative ends in the inline error    *)
(* and shows no result card.                                               *)
C1_NonPositiveIsRejected ==
    (GammaSubmitted /\ GammaAllPresent
        /\ (GammaParsed.mg[1] <= 0 \/ GammaParsed.ml[1] <= 0 \/ GammaParsed.flow[1] <= 0))
    => (screen.outcome = "error" /\ screen.card = "")

(* C2: every submission ends either in a complete result or in an inline   *)
(* error without a result; no exception escapes the calculation.           *)
C2_ResultOrErrorNeverException ==
    screen.submitted =>
        /\ screen.outcome \in {"result", "error"}
        /\ (screen.outcome = "error" => screen.card = "")

(* A valid submission: the three required inputs are present and, as the  *)
(* calculation uses them (rounded to one decimal), strictly positive.       *)
GammaValid ==
    /\ GammaSubmitted /\ GammaAllPresent
    /\ round(GammaParsed.mg[1], 100) > 0
    /\ round(GammaParsed.ml[1], 100) > 0
    /\ round(GammaParsed.flow[1], 100) > 0

GammaPositiveWeight == GammaParsed.wt # <<>> /\ GammaParsed.wt[1] > 0

(* C9: on a valid gamma submission the weight-normalised rate is on the    *)
(* secondary line exactly when a positive weight was supplied, for every   *)
(* preset; without a positive weight the mg/h result is still shown with   *)
(* the "gamma not shown" line, and no error is raised.                     *)
C9_RateShownIffPositiveWeight ==
    GammaValid =>
        /\ screen.outcome = "result"
        /\ GammaPositiveWeight <=>
              screen.secondary \in {"ug/kg/min", "ug/kg/h", "mg/kg/h"}
        /\ ~GammaPositiveWeight <=> screen.secondary = "gamma not shown: no weight"

(***************************************************************************)
(* Claims about the CCr module (checked under SpecCCr)                     *)
(***************************************************************************)
CCrSubmitted == screen.module = "ccr" /\ screen.submitted

CCrParsed ==
    [age |-> safe_parse_number(screen.age_str), wt |-> safe_parse_number(screen.wt_str),
     scr |-> safe_parse_number(screen.scr_str)]

CCrAllPresent == CCrParsed.age # <<>> /\ CCrParsed.wt # <<>> /\ CCrParsed.scr # <<>>

(* v < bound, v = (140 - age) * wt / (72 * scr) (x 0.85 for female), for    *)
(* age in years, wt in tenths and scr > 0 in hundredths.                    *)
CCrBelow(age, wt, scr, sex, bound) ==
    IF sex = "female"
    THEN (140 - age) * wt * 10 * 17 < bound * 72 * scr * 20
    ELSE (140 - age) * wt * 10 < bound * 72 * scr

CCrBandsAsStated(age, wt, scr) ==
    /\ screen.outcome = "result"
    /\ screen.cat \in {"severe (<30)", "moderate (30-60)", "normal (>60)"}
    /\ screen.cat = "severe (<30)" <=> CCrBelow(age, wt, scr, screen.sex, 30)
    /\ screen.cat = "moderate (30-60)" <=>
          (~CCrBelow(age, wt, scr, screen.sex, 30)
              /\ CCrBelow(age, wt, scr, screen.sex, 60))
    /\ screen.cat = "normal (>60)" <=> ~CCrBelow(age, wt, scr, screen.sex, 60)

DeltaFlags == {"hyperchloremic acidosis? (Ratio<0.4)", "metabolic alkalosis? (Ratio>2.0)"}

DeltaFlagShown == \E i \in 1..Len(screen.detail) : screen.detail[i] \in DeltaFlags

(* C6: a delta-ratio flag is emitted only when corrected AG > 12 and        *)
(* HCO3 < 24; with HCO3 = 24 the step is skipped without error and with     *)
(* HCO3 > 24 no delta-ratio flag is emitted.                                *)
C6_DeltaRatioOnlyBelow24 ==
    (screen.module = "ab" /\ screen.submitted) =>
        /\ screen.outcome = "result"
        /\ DeltaFlagShown => (screen.ag_corr > 12 * 20 /\ screen.hco3 < 24 * 10)

(***************************************************************************)
(* Claims about the renal module (checked under SpecRenal)                 *)
(***************************************************************************)
RenalSubmitted == screen.module = "renal" /\ screen.submitted

(* fena < bound, fena > bound on the inputs of the form (p_na * u_cr > 0). *)
FenaBelow(bound) == screen.u_na * screen.p_cr * 100 < bound * screen.p_na * screen.u_cr
FenaAbove(bound) == screen.u_na * screen.p_cr * 100 > bound * screen.p_na * screen.u_cr

(* C7: where FeNa is defined, FeNa < 1% is labelled prerenal, FeNa > 2%     *)
(* intrinsic renal (ATN), and 1% <= FeNa <= 2% indeterminate: neither       *)
(* prerenal nor intrinsic renal.                                            *)
C7_FenaThreeWayPartition ==
    (RenalSubmitted /\ screen.fena_shown) =>
        /\ FenaBelow(1) => screen.fena_state = "prerenal (dehydration/heart failure)"
        /\ FenaAbove(2) => screen.fena_state = "renal (ATN confirmed?)"
        /\ (~FenaBelow(1) /\ ~FenaAbove(2)) =>
              screen.fena_state \notin {"prerenal (dehydration/heart failure)",
                                        "renal (ATN confirmed?)", "renal (ATN etc.)"}

(* C8: FeNa is undefined exactly when plasma Na x urine creatinine is 0 and *)
(* FeUrea when plasma urea x urine creatinine is 0; the module then raises  *)
(* no error, shows nothing for the undefined quantity and still shows the   *)
(* other one when it is defined; FeUrea is computed only with the urea      *)
(* option selected.                                                         *)
C8_UndefinedIsNotAnError ==
    RenalSubmitted =>
        /\ screen.outcome # "error"
        /\ screen.fena_shown <=> (screen.p_na * screen.u_cr # 0)
        /\ screen.feurea_shown <=>
              (screen.do_urea /\ screen.p_urea * screen.u_cr # 0)
        /\ ~screen.fena_shown => (screen.fena = NoValue /\ screen.fena_state = "")
        /\ ~screen.feurea_shown => (screen.feurea = NoValue /\ screen.feurea_state = "")

(* FeNa undefined (plasma Na is 0) while FeUrea is defined and shown. *)
C8_Witness ==
    /\ RenalSubmitted /\ screen.p_na = 0 /\ screen.u_cr # 0
    /\ ~screen.fena_shown /\ screen.feurea_shown /\ screen.outcome = "result"

(***************************************************************************)
(* Claims about the draft export / import (checked under SpecDraft, C5     *)
(* under SpecForms)                                                        *)
(***************************************************************************)
(* The step just taken was an import: a file was in the uploader. *)
DraftImported == screen.module = "draft" /\ screen.outcome \in {"success", "error"}

(* C3: when an import fails (the load error is reported), every session     *)
(* value is what it was before the import started: no key of the uploaded   *)
(* file has been applied.                                                   *)
C3_FailedImportChangesNothing ==
    [][(DraftImported' /\ screen'.outcome = "error") => session' = session]_vars

(* C4: an import changes only session keys of the 15-key allow-list: no     *)
(* key outside it is created or written, and every session key outside it  *)
(* (initialized, draft) keeps its value, also when the imported             *)
(* gamma_preset re-applies a preset.                                        *)
C4_ImportWritesOnlyAllowList ==
    [][DraftImported' =>
          /\ DOMAIN session' = DOMAIN session
          /\ \A k \in DOMAIN session \ ExportKeySet : session'[k] = session[k]]_vars

(* A successful import of a file that held gamma_preset and keys outside    *)
(* the allow-list, one of them a key of the session: the preset was         *)
(* re-applied.                                                              *)
C4_Witness ==
    /\ DraftImported /\ screen.outcome = "success"
    /\ screen.file_keys = {"gamma_preset", "draft"}
    /\ session.gamma_preset = "Midazolam"
    /\ session.gamma_mg_str = "50.0" /\ session.gamma_ml_str = "50.0"

(* C5: the exported draft holds, for each exported field, the raw value     *)
(* most recently entered in its form: after the CCr form is rendered with   *)
(* sex chosen as female the exported ccr_sex is female, and after the       *)
(* acid-base form is submitted the six exported ab_*_str fields hold the    *)
(* submitted inputs (they are no longer unset).                             *)
C5_ExportHoldsLatestInputs ==
    LET data == ExportData(session)
    IN  /\ screen.module = "ccr" =>
              /\ data.ccr_age_str = screen.age_str
              /\ data.ccr_weight_str = screen.wt_str
              /\ data.ccr_scr_str = screen.scr_str
              /\ data.ccr_sex = screen.sex
        /\ (screen.module = "ab" /\ screen.submitted) =>
              \A k \in {"ab_ph_str", "ab_pco2_str", "ab_hco3_str",
                        "ab_na_str", "ab_cl_str", "ab_alb_str"} :
                  data[k] \notin {"", None}

(***************************************************************************)
(* Claims about the Forrester module (checked under SpecHf)                *)
(***************************************************************************)
HfSubmitted == screen.module = "hf" /\ screen.submitted

(* The quadrant of the inputs on the form, for bsa > 0. *)
HfWet == screen.pcwp >= 18
HfCold == screen.co * 10 < 22 * screen.bsa

(* C11: the Forrester classifier fails with an error and no subset when     *)
(* BSA <= 0; for BSA > 0 it assigns exactly the subset given by             *)
(* wet = (PCWP >= 18) and cold = (CO / BSA < 2.2): I when neither, II when  *)
(* wet and not cold, III when cold and not wet, IV when both, each with     *)
(* its therapy.                                                            *)
C11_ForresterQuadrants ==
    HfSubmitted =>
        IF screen.bsa <= 0
        THEN screen.outcome = "error" /\ screen.subset = "" /\ screen.rx = ""
        ELSE /\ screen.outcome = "result"
             /\ <<screen.subset, screen.rx>> =
                  (IF ~HfWet /\ ~HfCold THEN <<"I (Warm/Dry)", "observe">>
                   ELSE IF HfWet /\ ~HfCold
                   THEN <<"II (Warm/Wet)", "vasodilator + diuretic">>
                   ELSE IF ~HfWet /\ HfCold
                   THEN <<"III (Cold/Dry)", "fluid challenge (volume check) + inotrope">>
                   ELSE <<"IV (Cold/Wet)", "inotrope + vasopressor + mechanical support">>)

(* Both thresholds met exactly (PCWP 18, CI 4.4 / 2.0 = 2.2): wet and warm. *)
C11_Witness ==
    /\ HfSubmitted /\ screen.pcwp = 18 /\ screen.co = 44 /\ screen.bsa = 20
    /\ screen.subset = "II (Warm/Wet)"

(***************************************************************************)
(* Winter's formula (checked under SpecAB)                                 *)
(***************************************************************************)
InDetail(d) == \E i \in 1..Len(screen.detail) : screen.detail[i] = d

(* C12: Winter's formula is applied exactly when HCO3 < 24 and pH < 7.40,   *)
(* with expected PaCO2 = 1.5 x HCO3 + 8; PaCO2 > expected + 2 flags         *)
(* respiratory acidosis, PaCO2 < expected - 2 respiratory alkalosis, a      *)
(* PaCO2 inside the closed band neither; the two flags never appear         *)
(* together, and neither appears when HCO3 >= 24 or pH >= 7.40.             *)
C12_WinterBand ==
    (screen.module = "ab" /\ screen.submitted) =>
        LET applies == screen.hco3 < 240 /\ screen.ph < 740
            expected == 15 * screen.hco3 + 8 * 100
            above == 10 * screen.pco2 - expected > 200
            below == expected - 10 * screen.pco2 > 200
        IN  /\ InDetail("expected PaCO2 +-2") <=> applies
            /\ applies => screen.exp_pco2 = expected
            /\ InDetail("Resp Acidosis") <=> (applies /\ above)
            /\ InDetail("Resp Alkalosis") <=> (applies /\ below)
            /\ ~(InDetail("Resp Acidosis") /\ InDetail("Resp Alkalosis"))

(* PaCO2 37.0 with HCO3 18 and pH 7.28 is the upper edge of the band        *)
(* 35 +- 2: the formula applies and neither flag is shown.                  *)
C12_Witness ==
    /\ screen.module = "ab" /\ screen.submitted
    /\ screen.hco3 = 180 /\ screen.ph = 728 /\ screen.pco2 = 370
    /\ screen.exp_pco2 = 3500
    /\ InDetail("expected PaCO2 +-2")
    /\ ~InDetail("Resp Acidosis") /\ ~InDetail("Resp Alkalosis")

(***************************************************************************)
(* Claims about the session across pages (checked under SpecSession)       *)
(***************************************************************************)
(* C13: export followed by import is a round trip: after the snapshot that  *)
(* export produced from a reachable session is imported, into the same or   *)
(* any other session, each of the 15 allow-listed keys equals its exported  *)
(* value; the preset re-applied for the imported gamma_preset does not      *)
(* leave gamma_mg_str or gamma_ml_str different from the exported values.   *)
C13_ExportImportRoundTrip ==
    [][DraftReimport =>
          \A k \in ExportKeySet : session'[k] = screen.export[k]]_vars

(* C14: in every reachable session state gamma_preset is one of the names   *)
(* in DRUG_PRESETS, so rendering the gamma module, which looks up the index *)
(* of gamma_preset in the preset list, never fails.                         *)
C14_GammaPresetIsKnown ==
    /\ session.gamma_preset \in DOMAIN DRUG_PRESETS
    /\ ~(screen.module = "gamma" /\ screen.outcome = "exception")

====
